---- MODULE Spec2Model ----
(***************************************************************************)
(* CHIP-8 emulator core (chip8/emulator.py): the register file, program    *)
(* counter, index register, call stack, timers, blocking-input latch,      *)
(* memory and video memory, and the two slots that mutate them:            *)
(* Emulator.run_once (one fetch/decode/execute cycle) and                  *)
(* Emulator.decrement_timers (one timer tick).                             *)
(*                                                                         *)
(* chip8/memory.py, chip8/display.py and chip8/font.py are not part of the *)
(* available sources; Memory, VideoMemory and FONT_DATA are modelled from  *)
(* the written specification (sections 4.1, 4.2 and 6).                    *)
(***************************************************************************)
EXTENDS Integers, Sequences, FiniteSets, TLC

(* ------------------------------------------------------------------ *)
(* Program constants                                                   *)
(* ------------------------------------------------------------------ *)

PROGRAM_COUNTER_START == 512
STACK_POINTER_START == 82

\* memory.py / display.py (modelled from the specification)
FONT_START == 0
MEMORY_SIZE == 4096
VIDEO_WIDTH == 64
VIDEO_HEIGHT == 32

\* keypress_target before any FX0A has been executed (Python None)
None == -1

\* font.py: 16 glyphs of 5 bytes, digits 0-9 then A-F
FONT_DATA ==
  << 240, 144, 144, 144, 240,    32,  96,  32,  32, 112,
     240,  16, 240, 128, 240,   240,  16, 240,  16, 240,
     144, 144, 240,  16,  16,   240, 128, 240,  16, 240,
     240, 128, 240, 144, 240,   240,  16,  32,  64,  64,
     240, 144, 240, 144, 240,   240, 144, 240,  16, 240,
     240, 144, 240, 144, 144,   224, 144, 224, 144, 224,
     240, 128, 128, 128, 240,   224, 144, 144, 144, 224,
     240, 128, 240, 128, 240,   240, 128, 240, 128, 128 >>

(* ------------------------------------------------------------------ *)
(* Bounds of the model                                                 *)
(* ------------------------------------------------------------------ *)

\* deepest nest of 2NNN calls in the call/return programs
MaxDepth == 3
\* number of distinct host keyboard states offered to a polling call
MaxKeySets == 4

(* ------------------------------------------------------------------ *)
(* Integer helpers: Python's int operators on non-negative integers    *)
(* ------------------------------------------------------------------ *)

Min(S) == CHOOSE x \in S : \A y \in S : x <= y

RECURSIVE Pow2(_)
Pow2(n) == IF n = 0 THEN 1 ELSE 2 * Pow2(n - 1)

\* a >> n and a << n
ShiftRight(a, n) == a \div Pow2(n)
ShiftLeft(a, n) == a * Pow2(n)

\* a & b, a | b, a ^ b, bit by bit
RECURSIVE BitAnd(_, _)
BitAnd(a, b) ==
  IF a = 0 \/ b = 0 THEN 0
  ELSE (a % 2) * (b % 2) + 2 * BitAnd(a \div 2, b \div 2)

RECURSIVE BitOr(_, _)
BitOr(a, b) ==
  IF a = 0 THEN b
  ELSE IF b = 0 THEN a
  ELSE (IF a % 2 = 1 \/ b % 2 = 1 THEN 1 ELSE 0) + 2 * BitOr(a \div 2, b \div 2)

RECURSIVE BitXor(_, _)
BitXor(a, b) ==
  IF a = 0 THEN b
  ELSE IF b = 0 THEN a
  ELSE (IF a % 2 # b % 2 THEN 1 ELSE 0) + 2 * BitXor(a \div 2, b \div 2)

\* while x > 255: x -= 256
RECURSIVE WhileAbove255(_)
WhileAbove255(x) == IF x > 255 THEN WhileAbove255(x - 256) ELSE x

\* while x < 0: x += 256
RECURSIVE WhileBelow0(_)
WhileBelow0(x) == IF x < 0 THEN WhileBelow0(x + 256) ELSE x

\* int.from_bytes(<<hi, lo>>, byteorder="big") and int.to_bytes(n, 2, "big")
FromBytes(bs) == IF Len(bs) = 0 THEN 0 ELSE bs[1] * 256 + bs[2]
ToBytes(n) == << n \div 256, n % 256 >>

(* ------------------------------------------------------------------ *)
(* Instruction fields (the masks of run_once)                          *)
(* ------------------------------------------------------------------ *)

\* (instruction & 0x0F00) >> 8, (instruction & 0x00F0) >> 4
RegX(instruction) == ShiftRight(BitAnd(instruction, 3840), 8)
RegY(instruction) == ShiftRight(BitAnd(instruction, 240), 4)
\* instruction & 0x000F, & 0x00FF, & 0x0FFF
LowN(instruction) == BitAnd(instruction, 15)
LowNN(instruction) == BitAnd(instruction, 255)
LowNNN(instruction) == BitAnd(instruction, 4095)
\* instruction & 0xF000, & 0xF00F, & 0xF0FF
MaskF000(instruction) == BitAnd(instruction, 61440)
MaskF00F(instruction) == BitAnd(instruction, 61455)
MaskF0FF(instruction) == BitAnd(instruction, 61695)

(* ------------------------------------------------------------------ *)
(* Memory (memory.py, from the specification, section 4.1): a store of  *)
(* MEMORY_SIZE bytes, zero after construction.  The model keeps the     *)
(* bytes that were ever written; every other address reads 0.           *)
(* ------------------------------------------------------------------ *)

MemGet(mem, a) == IF a \in DOMAIN mem THEN mem[a] ELSE 0

\* a single index, or a span [a, b), lies inside the store
InBounds(a) == a >= 0 /\ a < MEMORY_SIZE
SpanInBounds(a, b) == a >= 0 /\ b <= MEMORY_SIZE

\* memory[a:a+n]
MemSlice(mem, a, n) == [i \in 1..n |-> MemGet(mem, a + i - 1)]

\* memory[a] = value
MemSet(mem, a, value) ==
  [x \in (DOMAIN mem) \cup {a} |-> IF x = a THEN value ELSE mem[x]]

\* memory[a:a+len(bs)] = bs
MemSetSlice(mem, a, bs) ==
  [x \in (DOMAIN mem) \cup {a + i - 1 : i \in 1..Len(bs)} |->
     IF x >= a /\ x < a + Len(bs) THEN bs[x - a + 1] ELSE mem[x]]

\* Memory(), load_font(FONT_DATA), load_rom(rom)
LoadFont(mem, font) == MemSetSlice(mem, FONT_START, font)
LoadRom(mem, rom) == MemSetSlice(mem, PROGRAM_COUNTER_START, rom)
EmptyMemory == [x \in {} |-> 0]

(* ------------------------------------------------------------------ *)
(* VideoMemory (display.py, from the specification, section 4.2): the   *)
(* set of lit pixels <<x, y>> of a VIDEO_WIDTH x VIDEO_HEIGHT grid.     *)
(* ------------------------------------------------------------------ *)

VideoReset == {}

\* the pixels a sprite sets: bit `column` (most significant first) of row `row`
SpritePixels(x, y, sprite) ==
  { << (x + column) % VIDEO_WIDTH, (y + row) % VIDEO_HEIGHT >> :
      << row, column >> \in
        { rc \in (0..(Len(sprite) - 1)) \X (0..7) :
            ShiftRight(sprite[rc[1] + 1], 7 - rc[2]) % 2 = 1 } }

\* draw_sprite: the pixels after the XOR, and whether any lit pixel was unset
DrawSprite(video, x, y, sprite) ==
  LET px == SpritePixels(x, y, sprite)
  IN  [ video |-> (video \ px) \cup (px \ video),
        collision |-> (video \cap px) # {} ]

(* ------------------------------------------------------------------ *)
(* The emulator's state as a record, and the outcome of a call          *)
(* ------------------------------------------------------------------ *)

\* no exception left the call
NoFailure == [kind |-> "none", instruction |-> None, address |-> None]

\* raise UnimplementedInstruction(instruction, address)
UnimplementedInstruction(instruction, address) ==
  [kind |-> "UnimplementedInstruction", instruction |-> instruction, address |-> address]

\* the OutOfBounds error of Memory
OutOfBounds == [kind |-> "OutOfBounds", instruction |-> None, address |-> None]

Raise(s, exception) == [s EXCEPT !.failure = exception]
Emit(s, signal) == [s EXCEPT !.events = Append(@, signal)]

\* self.v[x] = value
SetV(s, x, value) == [s EXCEPT !.v[x] = value]

(* ------------------------------------------------------------------ *)
(* The instructions of run_once; s is the state after the fetch, with   *)
(* the program counter already advanced by 2                            *)
(* ------------------------------------------------------------------ *)

\* 00E0
OpClearScreen(s, instruction) == [s EXCEPT !.video_memory = VideoReset]

\* 00EE reading the return address before the stack pointer is decremented
OpReturnReadFirst(s, instruction) ==
  IF ~SpanInBounds(s.stack_pointer, s.stack_pointer + 2)
  THEN Raise(s, OutOfBounds)
  ELSE [s EXCEPT !.program_counter =
                   FromBytes(MemSlice(s.memory, s.stack_pointer, 2)),
                 !.stack_pointer = @ - 2]

\* 00EE
OpReturn(s, instruction) ==
  LET s1 == [s EXCEPT !.stack_pointer = @ - 2]
  IN  IF ~SpanInBounds(s1.stack_pointer, s1.stack_pointer + 2)
      THEN Raise(s1, OutOfBounds)
      ELSE [s1 EXCEPT !.program_counter =
                        FromBytes(MemSlice(s1.memory, s1.stack_pointer, 2))]

\* 1NNN
OpJump(s, instruction) ==
  LET s1 == IF s.program_counter - 2 = LowNNN(instruction)
            THEN Emit(s, "actionPause") ELSE s
  IN  [s1 EXCEPT !.program_counter = LowNNN(instruction)]

\* 2NNN
OpCall(s, instruction) ==
  LET return_address == ToBytes(s.program_counter)
  IN  IF ~SpanInBounds(s.stack_pointer, s.stack_pointer + 2)
      THEN Raise(s, OutOfBounds)
      ELSE [s EXCEPT !.memory = MemSetSlice(@, s.stack_pointer, return_address),
                     !.stack_pointer = @ + 2,
                     !.program_counter = LowNNN(instruction)]

Skip(s, condition) ==
  IF condition THEN [s EXCEPT !.program_counter = @ + 2] ELSE s

\* 3XNN, 4XNN, 5XY0, 9XY0
OpSkipEqualValue(s, instruction) ==
  Skip(s, s.v[RegX(instruction)] = LowNN(instruction))
OpSkipNotEqualValue(s, instruction) ==
  Skip(s, s.v[RegX(instruction)] # LowNN(instruction))
OpSkipEqualRegister(s, instruction) ==
  Skip(s, s.v[RegX(instruction)] = s.v[RegY(instruction)])
OpSkipNotEqualRegister(s, instruction) ==
  Skip(s, s.v[RegX(instruction)] # s.v[RegY(instruction)])

\* 6XNN
OpMoveValue(s, instruction) == SetV(s, RegX(instruction), LowNN(instruction))

\* 7XNN writing a carry to V[F] as 8XY4 does
OpAddValueWithCarry(s, instruction) ==
  LET x == RegX(instruction)
      s1 == SetV(s, x, s.v[x] + LowNN(instruction))
      carry == s1.v[x] > 255
      s2 == SetV(s1, x, WhileAbove255(s1.v[x]))
  IN  SetV(s2, 15, IF carry THEN 1 ELSE 0)

\* 7XNN
OpAddValue(s, instruction) ==
  LET x == RegX(instruction)
      s1 == SetV(s, x, s.v[x] + LowNN(instruction))
  IN  SetV(s1, x, WhileAbove255(s1.v[x]))

\* 8XY0, 8XY1, 8XY2, 8XY3
OpMoveRegister(s, instruction) ==
  SetV(s, RegX(instruction), s.v[RegY(instruction)])
OpOr(s, instruction) ==
  SetV(s, RegX(instruction), BitOr(s.v[RegX(instruction)], s.v[RegY(instruction)]))
OpAnd(s, instruction) ==
  SetV(s, RegX(instruction), BitAnd(s.v[RegX(instruction)], s.v[RegY(instruction)]))
OpXor(s, instruction) ==
  SetV(s, RegX(instruction), BitXor(s.v[RegX(instruction)], s.v[RegY(instruction)]))

\* 8XY4 testing for the carry after the sum was wrapped
OpAddRegisterCarryAfterWrap(s, instruction) ==
  LET x == RegX(instruction)
      s1 == SetV(s, x, s.v[x] + s.v[RegY(instruction)])
      s2 == SetV(s1, x, WhileAbove255(s1.v[x]))
      carry == s2.v[x] > 255
  IN  SetV(s2, 15, IF carry THEN 1 ELSE 0)

\* 8XY4
OpAddRegister(s, instruction) ==
  LET x == RegX(instruction)
      s1 == SetV(s, x, s.v[x] + s.v[RegY(instruction)])
      carry == s1.v[x] > 255
      s2 == SetV(s1, x, WhileAbove255(s1.v[x]))
  IN  SetV(s2, 15, IF carry THEN 1 ELSE 0)

\* 8XY5
OpSubRegister(s, instruction) ==
  LET x == RegX(instruction)
      s1 == SetV(s, x, s.v[x] - s.v[RegY(instruction)])
      borrow == s1.v[x] < 0
      s2 == SetV(s1, x, WhileBelow0(s1.v[x]))
  IN  SetV(s2, 15, IF borrow THEN 0 ELSE 1)

\* 8XY6
OpShiftRight(s, instruction) ==
  LET x == RegX(instruction)
      s1 == SetV(s, 15, BitAnd(s.v[x], 1))
  IN  SetV(s1, x, ShiftRight(s1.v[x], 1))

\* 8XY7 subtracting in the order of 8XY5
OpSubReverseSwapped(s, instruction) ==
  LET x == RegX(instruction)
      s1 == SetV(s, x, s.v[x] - s.v[RegY(instruction)])
      borrow == s1.v[x] < 0
      s2 == SetV(s1, x, WhileBelow0(s1.v[x]))
  IN  SetV(s2, 15, IF borrow THEN 0 ELSE 1)

\* 8XY7
OpSubReverse(s, instruction) ==
  LET x == RegX(instruction)
      s1 == SetV(s, x, s.v[RegY(instruction)] - s.v[x])
      borrow == s1.v[x] < 0
      s2 == SetV(s1, x, WhileBelow0(s1.v[x]))
  IN  SetV(s2, 15, IF borrow THEN 0 ELSE 1)

\* 8XYE
OpShiftLeft(s, instruction) ==
  LET x == RegX(instruction)
      s1 == SetV(s, 15, ShiftRight(BitAnd(s.v[x], 128), 7))
  IN  SetV(s1, x, ShiftLeft(s1.v[x], 1))

\* ANNN
OpMoveIndex(s, instruction) == [s EXCEPT !.index_register = LowNNN(instruction)]

\* BNNN comparing NNN alone with the fetch address
OpJumpOffsetIgnoresV0(s, instruction) ==
  LET s1 == IF s.program_counter - 2 = LowNNN(instruction)
            THEN Emit(s, "actionPause") ELSE s
  IN  [s1 EXCEPT !.program_counter = LowNNN(instruction) + s.v[0]]

\* BNNN
OpJumpOffset(s, instruction) ==
  LET s1 == IF s.program_counter - 2 = LowNNN(instruction) + s.v[0]
            THEN Emit(s, "actionPause") ELSE s
  IN  [s1 EXCEPT !.program_counter = LowNNN(instruction) + s.v[0]]

\* CXNN; rand is the value randint(0, 255) returned
OpRandom(s, instruction, rand) ==
  SetV(s, RegX(instruction), BitAnd(rand, LowNN(instruction)))

\* DXYN
OpDraw(s, instruction) ==
  LET x == s.v[RegX(instruction)]
      y == s.v[RegY(instruction)]
      n == LowN(instruction)
  IN  IF ~SpanInBounds(s.index_register, s.index_register + n)
      THEN Raise(s, OutOfBounds)
      ELSE LET drawn == DrawSprite(s.video_memory, x, y,
                                   MemSlice(s.memory, s.index_register, n))
               s1 == [s EXCEPT !.video_memory = drawn.video]
               s2 == SetV(s1, 15, IF drawn.collision THEN 1 ELSE 0)
           IN  Emit(s2, "display_changed")

\* EX9E, EXA1; pressed is the set of keys the host reports pressed
OpSkipKeyPressed(s, instruction, pressed) ==
  Skip([s EXCEPT !.keys_polled = pressed], s.v[RegX(instruction)] \in pressed)
OpSkipKeyNotPressed(s, instruction, pressed) ==
  Skip([s EXCEPT !.keys_polled = pressed], s.v[RegX(instruction)] \notin pressed)

\* FX07
OpReadDelay(s, instruction) == SetV(s, RegX(instruction), s.delay_timer)

\* FX0A
OpWaitKey(s, instruction) ==
  [s EXCEPT !.keypress_target = RegX(instruction),
            !.waiting_for_keypress = TRUE]

\* FX15
OpLoadDelay(s, instruction) == [s EXCEPT !.delay_timer = s.v[RegX(instruction)]]

\* FX18 taken literally from its comment, "Load delay register"
OpLoadSoundIntoDelay(s, instruction) ==
  [s EXCEPT !.delay_timer = s.v[RegX(instruction)]]

\* FX18
OpLoadSound(s, instruction) == [s EXCEPT !.sound_timer = s.v[RegX(instruction)]]

\* FX1E
OpAddIndex(s, instruction) ==
  LET s1 == [s EXCEPT !.index_register = @ + s.v[RegX(instruction)]]
  IN  IF s1.index_register > 4095
      THEN SetV([s1 EXCEPT !.index_register = @ - 4096], 15, 1)
      ELSE SetV(s1, 15, 0)

\* FX29
OpFontIndex(s, instruction) ==
  [s EXCEPT !.index_register = FONT_START + s.v[RegX(instruction)] * 5]

\* memory[address] = value, or the OutOfBounds error; nothing once s has failed
Store(s, address, value) ==
  IF s.failure # NoFailure THEN s
  ELSE IF ~InBounds(address) THEN Raise(s, OutOfBounds)
  ELSE [s EXCEPT !.memory = MemSet(@, address, value)]

\* FX33 taking the tens digit from the whole value
OpStoreBCDTensUnreduced(s, instruction) ==
  LET value == s.v[RegX(instruction)]
      s1 == Store(s, s.index_register, value \div 100)
      s2 == Store(s1, s.index_register + 1, value \div 10)
  IN  Store(s2, s.index_register + 2, value % 10)

\* FX33
OpStoreBCD(s, instruction) ==
  LET value == s.v[RegX(instruction)]
      s1 == Store(s, s.index_register, value \div 100)
      value2 == value % 100
      s2 == Store(s1, s.index_register + 1, value2 \div 10)
  IN  Store(s2, s.index_register + 2, value2 % 10)

\* FX55: for i in range(x + 1): memory[I + i] = v[i]
RECURSIVE StoreRegisters(_, _, _)
StoreRegisters(s, i, last) ==
  IF i > last \/ s.failure # NoFailure THEN s
  ELSE StoreRegisters(Store(s, s.index_register + i, s.v[i]), i + 1, last)

OpStoreRegisters(s, instruction) == StoreRegisters(s, 0, RegX(instruction))

\* FX65: for i in range(x + 1): v[i] = memory[I + i]
RECURSIVE LoadRegisters(_, _, _)
LoadRegisters(s, i, last) ==
  IF i > last \/ s.failure # NoFailure THEN s
  ELSE IF ~InBounds(s.index_register + i) THEN Raise(s, OutOfBounds)
  ELSE LoadRegisters(SetV(s, i, MemGet(s.memory, s.index_register + i)), i + 1, last)

\* FX65 with range(x) for range(x + 1)
OpLoadRegistersExclusive(s, instruction) ==
  LoadRegisters(s, 0, RegX(instruction) - 1)

OpLoadRegisters(s, instruction) == LoadRegisters(s, 0, RegX(instruction))

\* the final else reporting the advanced program counter as the address
OpUnimplementedAtAdvancedCounter(s, instruction) ==
  LET exception == UnimplementedInstruction(instruction, s.program_counter)
  IN  Raise(Emit(s, "emulation_error"), exception)

\* the final else: emit emulation_error(exception), then raise it
OpUnimplemented(s, instruction) ==
  LET exception == UnimplementedInstruction(instruction, s.program_counter - 2)
  IN  Raise(Emit(s, "emulation_error"), exception)

(* ------------------------------------------------------------------ *)
(* run_once                                                             *)
(* ------------------------------------------------------------------ *)

\* the if/elif chain of run_once, in its order
Execute(s, instruction, pressed, rand) ==
  IF instruction = 224 THEN OpClearScreen(s, instruction)
  ELSE IF instruction = 238 THEN OpReturn(s, instruction)
  ELSE IF MaskF000(instruction) = 4096 THEN OpJump(s, instruction)
  ELSE IF MaskF000(instruction) = 8192 THEN OpCall(s, instruction)
  ELSE IF MaskF000(instruction) = 12288 THEN OpSkipEqualValue(s, instruction)
  ELSE IF MaskF000(instruction) = 16384 THEN OpSkipNotEqualValue(s, instruction)
  ELSE IF MaskF00F(instruction) = 20480 THEN OpSkipEqualRegister(s, instruction)
  ELSE IF MaskF000(instruction) = 24576 THEN OpMoveValue(s, instruction)
  ELSE IF MaskF000(instruction) = 28672 THEN OpAddValue(s, instruction)
  ELSE IF MaskF00F(instruction) = 32768 THEN OpMoveRegister(s, instruction)
  ELSE IF MaskF00F(instruction) = 32769 THEN OpOr(s, instruction)
  ELSE IF MaskF00F(instruction) = 32770 THEN OpAnd(s, instruction)
  ELSE IF MaskF00F(instruction) = 32771 THEN OpXor(s, instruction)
  ELSE IF MaskF00F(instruction) = 32772 THEN OpAddRegister(s, instruction)
  ELSE IF MaskF00F(instruction) = 32773 THEN OpSubRegister(s, instruction)
  ELSE IF MaskF00F(instruction) = 32774 THEN OpShiftRight(s, instruction)
  ELSE IF MaskF00F(instruction) = 32775 THEN OpSubReverse(s, instruction)
  ELSE IF MaskF00F(instruction) = 32782 THEN OpShiftLeft(s, instruction)
  ELSE IF MaskF00F(instruction) = 36864 THEN OpSkipNotEqualRegister(s, instruction)
  ELSE IF MaskF000(instruction) = 40960 THEN OpMoveIndex(s, instruction)
  ELSE IF MaskF000(instruction) = 45056 THEN OpJumpOffset(s, instruction)
  ELSE IF MaskF000(instruction) = 49152 THEN OpRandom(s, instruction, rand)
  ELSE IF MaskF000(instruction) = 53248 THEN OpDraw(s, instruction)
  ELSE IF MaskF0FF(instruction) = 57502 THEN OpSkipKeyPressed(s, instruction, pressed)
  ELSE IF MaskF0FF(instruction) = 57505 THEN OpSkipKeyNotPressed(s, instruction, pressed)
  ELSE IF MaskF0FF(instruction) = 61447 THEN OpReadDelay(s, instruction)
  ELSE IF MaskF0FF(instruction) = 61450 THEN OpWaitKey(s, instruction)
  ELSE IF MaskF0FF(instruction) = 61461 THEN OpLoadDelay(s, instruction)
  ELSE IF MaskF0FF(instruction) = 61464 THEN OpLoadSound(s, instruction)
  ELSE IF MaskF0FF(instruction) = 61470 THEN OpAddIndex(s, instruction)
  ELSE IF MaskF0FF(instruction) = 61481 THEN OpFontIndex(s, instruction)
  ELSE IF MaskF0FF(instruction) = 61491 THEN OpStoreBCD(s, instruction)
  ELSE IF MaskF0FF(instruction) = 61525 THEN OpStoreRegisters(s, instruction)
  ELSE IF MaskF0FF(instruction) = 61541 THEN OpLoadRegisters(s, instruction)
  ELSE OpUnimplemented(s, instruction)

\* the fetch: the two bytes at the program counter, big-endian; the program
\* counter is advanced before the instruction is decoded
Fetch(s) ==
  IF ~SpanInBounds(s.program_counter, s.program_counter + 2)
  THEN Raise(s, OutOfBounds)
  ELSE [s EXCEPT !.instruction =
                   FromBytes(MemSlice(s.memory, s.program_counter, 2)),
                 !.program_counter = @ + 2]

FetchExecute(s, pressed, rand) ==
  LET s1 == Fetch(s)
  IN  IF s1.failure # NoFailure THEN s1
      ELSE Execute(s1, s1.instruction, pressed, rand)

Max(S) == CHOOSE x \in S : \A y \in S : x >= y

\* the poll taking the highest pressed key (for key in reversed(range(16)))
PollKeysDescending(s, pressed) ==
  LET hits == pressed \cap (0..15)
  IN  IF hits = {} THEN s
      ELSE [SetV(s, s.keypress_target, Max(hits)) EXCEPT
              !.waiting_for_keypress = FALSE]

\* for key in range(16): if is_key_pressed(key): v[keypress_target] = key;
\* waiting_for_keypress = False; break
PollKeys(s, pressed) ==
  LET hits == pressed \cap (0..15)
  IN  IF hits = {} THEN s
      ELSE [SetV(s, s.keypress_target, Min(hits)) EXCEPT
              !.waiting_for_keypress = FALSE]

\* what the call leaves behind it for an observer: nothing emitted, nothing
\* raised, nothing fetched and no key polled yet
Enter(s) ==
  [s EXCEPT !.events = << >>, !.failure = NoFailure,
            !.instruction = None, !.keys_polled = {}]

\* run_once without the for loop's else: return
RunOnceWithoutReturn(s, pressed, rand) ==
  IF s.waiting_for_keypress
  THEN LET s1 == [Enter(s) EXCEPT !.keys_polled = pressed]
       IN  FetchExecute(PollKeys(s1, pressed), pressed, rand)
  ELSE FetchExecute(Enter(s), pressed, rand)

RunOnce(s, pressed, rand) ==
  IF s.waiting_for_keypress
  THEN LET s1 == [Enter(s) EXCEPT !.keys_polled = pressed]
           s2 == PollKeys(s1, pressed)
       IN  IF s2.waiting_for_keypress THEN s2
           ELSE FetchExecute(s2, pressed, rand)
  ELSE FetchExecute(Enter(s), pressed, rand)

(* ------------------------------------------------------------------ *)
(* decrement_timers                                                     *)
(* ------------------------------------------------------------------ *)

\* decrement_timers stopping one short of zero
DecrementTimersStopsAtOne(s) ==
  LET s1 == IF s.delay_timer > 1 THEN [s EXCEPT !.delay_timer = @ - 1] ELSE s
  IN  IF s1.sound_timer > 1 THEN [s1 EXCEPT !.sound_timer = @ - 1] ELSE s1

\* decrement_timers with the second test nested in the first
DecrementTimersNested(s) ==
  IF s.delay_timer > 0
  THEN LET s1 == [s EXCEPT !.delay_timer = @ - 1]
       IN  IF s1.sound_timer > 0 THEN [s1 EXCEPT !.sound_timer = @ - 1] ELSE s1
  ELSE s

DecrementTimers(s) ==
  LET s1 == IF s.delay_timer > 0 THEN [s EXCEPT !.delay_timer = @ - 1] ELSE s
  IN  IF s1.sound_timer > 0 THEN [s1 EXCEPT !.sound_timer = @ - 1] ELSE s1

(* ------------------------------------------------------------------ *)
(* Programs: the rom argument of Emulator(rom, parent)                  *)
(* ------------------------------------------------------------------ *)

\* the 16-bit word with nibbles h, x, y, n
Word(h, x, y, n) == h * 4096 + x * 256 + y * 16 + n

\* 1NNN to its own address, as word number k (from 0) of a program
Halt(k) == 4096 + PROGRAM_COUNTER_START + 2 * k

\* 2NNN to word number k of a program
CallTo(k) == 8192 + PROGRAM_COUNTER_START + 2 * k

\* the bytes of a program given as 16-bit words
Bytes(words) ==
  [i \in 1..(2 * Len(words)) |->
     IF i % 2 = 1 THEN words[(i + 1) \div 2] \div 256 ELSE words[i \div 2] % 256]

\* operand values at and around the 8-bit boundaries
ByteSamples == {0, 1, 127, 128, 255}

\* single instructions of every family of the decode chain, and of every word
\* shape that matches no branch
ProbeWords ==
  (0..255)
    \cup {256, 480, 3808, 4095}
    \cup {Word(5, 1, 2, n) : n \in 0..15}
    \cup {Word(8, 1, 2, n) : n \in 0..15}
    \cup {Word(9, 1, 2, n) : n \in 0..15}
    \cup {Word(14, 1, nn \div 16, nn % 16) : nn \in 0..255}
    \cup {Word(15, 1, nn \div 16, nn % 16) : nn \in 0..255}
    \cup {Word(15, 15, 0, 10), Word(15, 3, 15, 15), Word(14, 0, 9, 14), Word(14, 0, 10, 1)}
    \cup {4608, 4864, 8191, 8960, 12544, 12545, 16640, 24917, 29013,
          41251, 45568, 45824, 53269}

ProbeRoms == { << w, Halt(1) >> : w \in ProbeWords }

\* FX0A followed by an instruction that writes a register, by a jump, by a
\* second FX0A, and by a word that matches no branch; and an FX0A the program
\* writes into the last two bytes of the store and then runs
WaitRoms ==
  UNION { { << Word(15, x, 0, 10), Word(6, 2, 0, 7), Halt(2) >>,
            << Word(15, x, 0, 10), Word(6, x, 0, 7), Halt(2) >>,
            << Word(15, x, 0, 10), Halt(1) >>,
            << Word(15, x, 0, 10), Word(15, 2, 0, 10), Halt(2) >>,
            << Word(15, x, 0, 10), Word(14, x, 9, 14), Halt(2), Halt(3) >>,
            << Word(15, x, 0, 10), 4095 >> } : x \in {1, 15} }
    \cup { << 24817, 24842, 45054, Word(15, 1, 5, 5), 8190 >> }

\* 8XYE and 8XY6 on every value of V[1], on V[F], and 8XYE twice
ShiftRoms ==
  { << Word(12, 1, 15, 15), Word(8, 1, 2, 14), Halt(2) >>,
    << Word(12, 1, 15, 15), Word(8, 1, 2, 6), Halt(2) >>,
    << Word(12, 15, 15, 15), Word(8, 15, 2, 14), Halt(2) >>,
    << Word(12, 15, 15, 15), Word(8, 15, 2, 6), Halt(2) >>,
    << Word(12, 1, 15, 15), Word(8, 1, 2, 14), Word(8, 1, 2, 14), Halt(3) >> }

\* 7XNN: every old value with sampled NN, sampled old values with every NN,
\* with V[F] set beforehand, and with X = F
AddValueRoms ==
  { << Word(12, 1, 15, 15), 28928 + nn, Halt(2) >> : nn \in ByteSamples }
    \cup { << 24832 + a, 28928 + nn, Halt(2) >> : a \in ByteSamples, nn \in 0..255 }
    \cup { << 28416 + f, Word(12, 1, 15, 15), 28928 + nn, Halt(3) >> :
             f \in {1, 200}, nn \in ByteSamples }
    \cup { << Word(12, 15, 15, 15), 32512 + nn, Halt(2) >> : nn \in ByteSamples }

\* 8XY4, 8XY5, 8XY7: every V[1] with sampled V[2] and the reverse, and the
\* register aliasings Y = F, X = Y and X = F
AluOps == {4, 5, 7}

AluRoms ==
  UNION { { << 25088 + b, Word(12, 1, 15, 15), Word(8, 1, 2, op), Halt(3) >> :
              b \in ByteSamples }
            \cup { << 24832 + a, Word(12, 2, 15, 15), Word(8, 1, 2, op), Halt(3) >> :
                     a \in ByteSamples }
            \cup { << 28416 + b, Word(12, 1, 15, 15), Word(8, 1, 15, op), Halt(3) >> :
                     b \in ByteSamples }
            \cup { << 25088 + b, Word(12, 15, 15, 15), Word(8, 15, 2, op), Halt(3) >> :
                     b \in ByteSamples }
            \cup { << Word(12, 1, 15, 15), Word(8, 1, 1, op), Halt(2) >> } :
          op \in AluOps }

\* d nested calls and d returns: word 0 calls f1, word 1 halts; f_i is the word
\* pair 2i, 2i+1: it calls f_(i+1) and returns, the innermost only returns
NestedCalls(d) ==
  [k \in 1..(2 * d + 2) |->
     IF k = 1 THEN CallTo(2)
     ELSE IF k = 2 THEN Halt(1)
     ELSE IF k % 2 = 1 THEN (IF k = 2 * d + 1 THEN 238 ELSE CallTo((k + 1)))
     ELSE (IF k = 2 * d + 2 THEN 0 ELSE 238)]

\* a call whose return address is overwritten by FX55 before the return, and a
\* call that never returns
CallRoms ==
  { NestedCalls(d) : d \in 1..MaxDepth }
    \cup { << CallTo(2), Halt(1), 41042, Word(15, 1, 5, 5), 238 >>,
           << CallTo(2), Halt(1), Word(6, 1, 0, 9), Halt(3) >> }

\* the timers loaded, ticked and read back
TimerRoms ==
  { << 24835, Word(15, 1, 1, 5), Word(15, 1, 1, 8), Word(15, 2, 0, 7), Halt(4) >>,
    << Word(6, 1, 0, 3), Word(15, 1, 1, 5), Word(6, 2, 0, 1), Word(15, 2, 1, 8),
       Word(15, 3, 0, 10), Word(15, 4, 0, 7), Halt(6) >>,
    << Word(6, 1, 0, 2), Word(15, 1, 1, 5), Word(15, 1, 1, 8), 4608 >> }

\* FX33 on every value of V[1], with the index register at 0x300
BcdRoms ==
  { << 41728, Word(12, 1, 15, 15), Word(15, 1, 3, 3), Halt(3) >> }

\* a two-instruction loop, and BNNN at 0x202 landing on and around itself
JumpRoms ==
  { << Word(6, 1, 0, 5), 4608 >>,
    << Word(6, 0, 0, 2), 45568 >>,
    << Word(6, 0, 0, 2), 45570 >>,
    << Word(12, 0, 0, 15), 45560 >> }

\* a glyph drawn, erased and drawn again, then the screen cleared; a glyph
\* drawn across the edges and then over itself
DrawRoms ==
  { << 40960, Word(13, 0, 1, 5), Word(13, 0, 1, 5), Word(13, 0, 1, 5),
       224, Halt(5) >>,
    << Word(12, 1, 15, 15), Word(6, 2, 1, 15), 40965, Word(13, 1, 2, 5),
       Word(13, 2, 1, 5), Halt(5) >> }

\* FX55, FX65 and FX33 on a span that crosses the end of the memory
EdgeRoms ==
  { << Word(6, 0, 0, 7), Word(6, 1, 0, 9), 45055, Word(15, 1, 5, 5) >>,
    << Word(6, 0, 0, 7), 45055, Word(15, 0, 5, 5), Word(6, 0, 0, 0),
       Word(15, 1, 6, 5) >>,
    << Word(6, 1, 9, 13), 45054, Word(15, 1, 3, 3) >> }

\* 2NNN calling itself until the stack pointer runs into the program
OverflowRoms ==
  { << CallTo(0) >> }

\* FX29 and FX1E on a register shifted left past 8 bits; FX1E across 0xFFF
IndexRoms ==
  { << Word(6, 1, 15, 15), Word(8, 1, 1, 14), Word(8, 1, 1, 14),
       Word(15, 1, 2, 9) >>,
    << Word(6, 1, 15, 15), Word(8, 1, 1, 14), Word(8, 1, 1, 14),
       Word(8, 1, 1, 14), Word(8, 1, 1, 14), Word(8, 1, 1, 14), 45055,
       Word(15, 1, 1, 14) >>,
    << 45040, Word(12, 1, 1, 15), Word(15, 1, 1, 14), Halt(3) >> }

\* index registers for FX55/FX65: mid-memory, and with I + X the last byte
SaveAddresses(x) == {768, MEMORY_SIZE - 1 - x}

\* V[X] set, V[0] random, V[0..X] stored at i, V[0], V[X] and V[X+1] overwritten,
\* V[0..X] loaded back
SaveRestore(x, i) ==
  << Word(6, x, 10, x), Word(12, 0, 8, 1), 40960 + i, Word(15, x, 5, 5),
     Word(6, 0, 15, 15), Word(6, x, 3, 3), Word(6, (x + 1) % 16, 7, 7),
     Word(15, x, 6, 5), Halt(8) >>

\* FX55 then FX65 for every X; and with the stored span or the index register
\* written in between
SaveRoms ==
  { SaveRestore(xi[1], xi[2]) :
      xi \in UNION { {x} \X SaveAddresses(x) : x \in 0..15 } }
    \cup { << Word(6, 0, 0, 5), 41728, Word(15, 0, 5, 5), Word(6, 0, 15, 15),
              Word(15, 0, 3, 3), Word(15, 0, 6, 5), Halt(6) >>,
           << Word(6, 0, 0, 5), 41728, Word(15, 0, 5, 5), Word(6, 0, 0, 9),
              41729, Word(15, 0, 6, 5), Halt(6) >> }

Roms ==
  { Bytes(words) :
      words \in ProbeRoms \cup WaitRoms \cup ShiftRoms \cup AddValueRoms
                  \cup AluRoms \cup CallRoms \cup TimerRoms \cup BcdRoms
                  \cup JumpRoms \cup DrawRoms \cup EdgeRoms
                  \cup OverflowRoms \cup IndexRoms \cup SaveRoms }

\* the keyboard states the host may report to a call that polls it
KeyStateList == << {}, {5}, {2, 9}, {0}, {15, 1}, {3, 4, 10} >>
KeySets == { KeyStateList[i] : i \in 1..MaxKeySets }

(* ------------------------------------------------------------------ *)
(* State                                                                *)
(* ------------------------------------------------------------------ *)

VARIABLES
  v,                      \* self.v: the 16 general registers
  program_counter,
  index_register,
  stack_pointer,
  delay_timer,
  sound_timer,
  waiting_for_keypress,
  keypress_target,
  memory,                 \* self.memory
  video_memory,           \* self.video_memory
  events,                 \* the signals the last run_once call emitted, in order
  failure,                \* the exception that left the last run_once call
  instruction,            \* the word the last run_once call fetched, or None
  keys_polled,            \* the keys the host reported pressed to the last call
  calls,                  \* history: the pending calls, <<fetch address, stack pointer>>
  ticked,                 \* history: the last call was decrement_timers
  delay_load,             \* history: <<n, k>>, the value n the last FX15 loaded
                          \* (0 from __init__) and the k <= n timeouts since
  saved                   \* history: what the last FX55 stored and where, while
                          \* that span and the index register are untouched

\* no FX55 to restore from
NoSnapshot == [valid |-> FALSE, index |-> 0, x |-> 0, values |-> << >>]

vars ==
  << v, program_counter, index_register, stack_pointer, delay_timer, sound_timer,
     waiting_for_keypress, keypress_target, memory, video_memory,
     events, failure, instruction, keys_polled, calls, ticked, delay_load,
     saved >>

\* the processor state proper: everything run_once and decrement_timers own
machine ==
  << v, program_counter, index_register, stack_pointer, delay_timer, sound_timer,
     waiting_for_keypress, keypress_target, memory, video_memory >>

State ==
  [ v |-> v, program_counter |-> program_counter, index_register |-> index_register,
    stack_pointer |-> stack_pointer, delay_timer |-> delay_timer,
    sound_timer |-> sound_timer, waiting_for_keypress |-> waiting_for_keypress,
    keypress_target |-> keypress_target, memory |-> memory,
    video_memory |-> video_memory, events |-> events, failure |-> failure,
    instruction |-> instruction, keys_polled |-> keys_polled ]

Becomes(t) ==
  /\ v' = t.v
  /\ program_counter' = t.program_counter
  /\ index_register' = t.index_register
  /\ stack_pointer' = t.stack_pointer
  /\ delay_timer' = t.delay_timer
  /\ sound_timer' = t.sound_timer
  /\ waiting_for_keypress' = t.waiting_for_keypress
  /\ keypress_target' = t.keypress_target
  /\ memory' = t.memory
  /\ video_memory' = t.video_memory
  /\ events' = t.events
  /\ failure' = t.failure
  /\ instruction' = t.instruction
  /\ keys_polled' = t.keys_polled

\* Emulator.__init__(rom, parent)
Construct(rom) ==
  [ v |-> [i \in 0..15 |-> 0],
    program_counter |-> PROGRAM_COUNTER_START,
    index_register |-> 0,
    stack_pointer |-> STACK_POINTER_START,
    delay_timer |-> 0,
    sound_timer |-> 0,
    waiting_for_keypress |-> FALSE,
    keypress_target |-> None,
    memory |-> LoadRom(LoadFont(EmptyMemory, FONT_DATA), rom),
    video_memory |-> VideoReset,
    events |-> << >>, failure |-> NoFailure, instruction |-> None,
    keys_polled |-> {} ]

Init ==
  /\ \E rom \in Roms : \E t \in {Construct(rom)} :
       /\ v = t.v
       /\ program_counter = t.program_counter
       /\ index_register = t.index_register
       /\ stack_pointer = t.stack_pointer
       /\ delay_timer = t.delay_timer
       /\ sound_timer = t.sound_timer
       /\ waiting_for_keypress = t.waiting_for_keypress
       /\ keypress_target = t.keypress_target
       /\ memory = t.memory
       /\ video_memory = t.video_memory
       /\ events = t.events
       /\ failure = t.failure
       /\ instruction = t.instruction
       /\ keys_polled = t.keys_polled
  /\ calls = << >>
  /\ ticked = FALSE
  /\ delay_load = << 0, 0 >>
  /\ saved = NoSnapshot

\* the word the next fetch will read, or None when the fetch is out of bounds
NextWord(s) ==
  IF SpanInBounds(s.program_counter, s.program_counter + 2)
  THEN FromBytes(MemSlice(s.memory, s.program_counter, 2))
  ELSE None

\* the inputs a call consumes: the keyboard when it polls (the AwaitingKey loop,
\* EX9E, EXA1), randint when it executes CXNN
KeyInputs(s) ==
  IF s.waiting_for_keypress
       \/ (NextWord(s) # None /\ MaskF0FF(NextWord(s)) \in {57502, 57505})
  THEN KeySets ELSE {{}}

RandInputs(s) ==
  IF NextWord(s) # None /\ MaskF000(NextWord(s)) = 49152 THEN 0..255 ELSE {0}

\* history of pending calls: pushed by a 2NNN, popped by a 00EE, forgotten when
\* another instruction writes into the occupied part of the stack area
Pending(s, t) ==
  IF t.failure # NoFailure \/ t.instruction = None THEN calls
  ELSE IF t.instruction # 238 /\ MaskF000(t.instruction) = 8192
       THEN Append(calls, << s.program_counter, s.stack_pointer >>)
  ELSE IF t.instruction = 238
       THEN (IF calls = << >> THEN calls ELSE SubSeq(calls, 1, Len(calls) - 1))
  ELSE IF \E a \in STACK_POINTER_START..(s.stack_pointer - 1) :
            MemGet(t.memory, a) # MemGet(s.memory, a)
       THEN << >>
  ELSE calls

\* history of the delay timer: restarted by a call that executed FX15
Loaded(t) ==
  IF t.failure = NoFailure /\ t.instruction # None
       /\ MaskF0FF(t.instruction) = 61461
  THEN << t.delay_timer, 0 >>
  ELSE delay_load

\* history of FX55: a call that, from the Running state, executed FX55 records
\* the index register, X and the values V[0..X] had when it started; a later
\* call that changes the index register or a byte of memory[I..I+X] discards
\* the record
Snapshot(s, t) ==
  IF t.failure = NoFailure /\ t.instruction # None
       /\ MaskF0FF(t.instruction) = 61525
  THEN IF s.waiting_for_keypress THEN NoSnapshot
       ELSE [valid |-> TRUE, index |-> s.index_register,
             x |-> RegX(t.instruction),
             values |-> [i \in 1..(RegX(t.instruction) + 1) |-> s.v[i - 1]]]
  ELSE IF ~saved.valid THEN saved
  ELSE IF \/ t.index_register # saved.index
          \/ \E a \in saved.index..(saved.index + saved.x) :
               MemGet(t.memory, a) # MemGet(s.memory, a)
       THEN NoSnapshot
  ELSE saved

\* one run_once call; the slot can be called again after a call that raised
RunOnceCall ==
  /\ \E pressed \in KeyInputs(State), rand \in RandInputs(State) :
       \E t \in {RunOnce(State, pressed, rand)} :
         /\ Becomes(t)
         /\ calls' = Pending(State, t)
         /\ delay_load' = Loaded(t)
         /\ saved' = Snapshot(State, t)
  /\ ticked' = FALSE

\* one timeout of the QTimer
DecrementTimersCall ==
  /\ \E t \in {DecrementTimers(State)} : Becomes(t)
  /\ ticked' = TRUE
  /\ delay_load' = << delay_load[1], Min({delay_load[2] + 1, delay_load[1]}) >>
  /\ UNCHANGED << calls, saved >>

Next == RunOnceCall \/ DecrementTimersCall

Spec == Init /\ [][Next]_vars

\* the QTimer keeps timing out every TIMER_INTERVAL milliseconds: a
\* decrement_timers call that would change the state is eventually made;
\* nothing is assumed of how often run_once is called
FairSpec == Spec /\ WF_vars(DecrementTimersCall)

(* ------------------------------------------------------------------ *)
(* Properties                                                           *)
(* ------------------------------------------------------------------ *)

\* the step is a run_once call: decrement_timers, the only other slot, did not
\* take it
RunOnceRan == ~DecrementTimersCall

\* the keys 0..15 the host reported pressed to the call that just ran
Hits == keys_polled' \cap (0..15)

\* the call that just ran executed, from the Running state, a word of the
\* family mask/pattern (low nibble n of the 8XYN family)
Ran8XY(n) ==
  /\ RunOnceRan
  /\ ~waiting_for_keypress
  /\ instruction' # None
  /\ MaskF00F(instruction') = 32768 + n

Ran7XNN ==
  /\ RunOnceRan
  /\ ~waiting_for_keypress
  /\ instruction' # None
  /\ MaskF000(instruction') = 28672

IsByte(n) == n \in 0..255

\* C1: a run_once call that fails with UnimplementedInstruction leaves the
\* registers, the index register, the program counter, the stack pointer, the
\* timers, the memory and the video memory as they were before the call.
C1_FailedStepMutatesNothing ==
  [][RunOnceRan /\ failure'.kind = "UnimplementedInstruction"
       => UNCHANGED machine]_vars

\* the rows of the opcode table, as the written specification lists them
NoTableRow(w) ==
  LET h == w \div 4096
      n == w % 16
      nn == w % 256
  IN  \/ h = 0 /\ w \notin {224, 238}
      \/ h \in {5, 9} /\ n # 0
      \/ h = 8 /\ n \in (8..13) \cup {15}
      \/ h = 14 /\ nn \notin {158, 161}
      \/ h = 15 /\ nn \notin {7, 10, 21, 24, 30, 41, 51, 85, 101}

\* C2: a call fails with UnimplementedInstruction exactly when the fetched word
\* matches no row of the opcode table; the exception carries the fetched word
\* and the address it was fetched from, not the advanced program counter, and
\* the emulation_error signal has been emitted when the exception leaves the call.
C2_UnimplementedExactly ==
  [][RunOnceRan /\ instruction' # None
       => /\ (failure'.kind = "UnimplementedInstruction") <=> NoTableRow(instruction')
          /\ failure'.kind = "UnimplementedInstruction"
               => /\ failure'.instruction = instruction'
                  /\ failure'.address = program_counter
                  /\ failure'.address # program_counter'
                  /\ events' = << "emulation_error" >>]_vars

C2_Witness ==
  /\ failure = UnimplementedInstruction(4095, PROGRAM_COUNTER_START)
  /\ events = << "emulation_error" >>
  /\ instruction = 4095

\* C3: a run_once call made in AwaitingKey while no key 0..15 is pressed
\* changes nothing: program counter, registers, index register, stack pointer,
\* timers, memory, video memory, the latch and its target register.
C3_NoKeyNoOp ==
  [][RunOnceRan /\ waiting_for_keypress /\ Hits = {}
       => UNCHANGED machine /\ instruction' = None /\ events' = << >>]_vars

C3_Witness ==
  /\ waiting_for_keypress
  /\ keypress_target = 1
  /\ instruction = None
  /\ keys_polled = {}
  /\ program_counter = PROGRAM_COUNTER_START + 2

\* C4 as claimed: the call that finds a key pressed in AwaitingKey fetches no
\* instruction and leaves the program counter unchanged.
C4_LatchConsumesNoCycle ==
  [][RunOnceRan /\ waiting_for_keypress /\ Hits # {}
       => program_counter' = program_counter /\ instruction' = None]_vars

\* the registers the word writes when it is executed: none for the jumps, the
\* skips, FX0A and the words that match no branch, X for 6XNN; every register
\* for the families this property does not look into
WrittenBy(w) ==
  IF w = None THEN {}
  ELSE IF MaskF000(w) \in {4096, 12288, 16384} THEN {}
  ELSE IF MaskF0FF(w) \in {57502, 57505, 61450} THEN {}
  ELSE IF NoTableRow(w) THEN {}
  ELSE IF MaskF000(w) = 24576 THEN {RegX(w)}
  ELSE 0..15

\* C5: AwaitingKey is entered only by executing FX0A, which records X as the
\* target, and left only by a run_once call to which a key 0..15 is reported
\* pressed; the latch writes the lowest pressed key into the recorded target
\* register and into no other register.
C5_LatchLowestKey ==
  [][/\ ~waiting_for_keypress /\ waiting_for_keypress'
          => /\ RunOnceRan
             /\ MaskF0FF(instruction') = 61450
             /\ keypress_target' = RegX(instruction')
     /\ waiting_for_keypress /\ ~waiting_for_keypress'
          => RunOnceRan /\ Hits # {}
     /\ RunOnceRan /\ waiting_for_keypress /\ Hits # {}
          => \A r \in (0..15) \ WrittenBy(instruction') :
               v'[r] = IF r = keypress_target THEN Min(Hits) ELSE v[r]]_vars

C5_Witness ==
  /\ ~waiting_for_keypress
  /\ keys_polled = {2, 9}
  /\ keypress_target = 15
  /\ v[15] = 2
  /\ instruction = Halt(1)

\* C6: 8XYE with X # F and V[X] = a in 0..255 leaves V[F] = (a & 0x80) >> 7
\* and V[X] = (a << 1) mod 256.
C6_ShiftLeftLaw ==
  [][Ran8XY(14) /\ RegX(instruction') # 15 /\ IsByte(v[RegX(instruction')])
       => LET a == v[RegX(instruction')]
          IN  /\ v'[15] = (a \div 128) % 2
              /\ v'[RegX(instruction')] = (2 * a) % 256]_vars

\* C7: 8XY4 with X # F, V[X] = a and V[Y] = b in 0..255 leaves
\* V[X] = (a + b) mod 256, V[F] = 1 if a + b > 255 and 0 otherwise, and every
\* other register as it was.
C7_AddCarryLaw ==
  [][Ran8XY(4) /\ RegX(instruction') # 15
       /\ IsByte(v[RegX(instruction')]) /\ IsByte(v[RegY(instruction')])
       => LET a == v[RegX(instruction')]
              b == v[RegY(instruction')]
          IN  v' = [r \in 0..15 |->
                      IF r = RegX(instruction') THEN (a + b) % 256
                      ELSE IF r = 15 THEN (IF a + b > 255 THEN 1 ELSE 0)
                      ELSE v[r]]]_vars

C7_Witness ==
  /\ instruction = Word(8, 1, 2, 4)
  /\ v[2] = 128
  /\ v[1] = 0
  /\ v[15] = 1

\* the borrow law of 8XY5 (minuend V[X]) and 8XY7 (minuend V[Y])
BorrowLaw(n, minuend, subtrahend) ==
  Ran8XY(n) /\ RegX(instruction') # 15
    /\ IsByte(v[RegX(instruction')]) /\ IsByte(v[RegY(instruction')])
    => /\ v'[RegX(instruction')] = (minuend - subtrahend) % 256
       /\ v'[15] = IF minuend < subtrahend THEN 0 ELSE 1

\* C8 as claimed: the borrow laws of 8XY5 and 8XY7, and 8XY7 leaves V[Y]
\* unchanged.
C8_BorrowLawKeepsVY ==
  [][/\ BorrowLaw(5, v[RegX(instruction')], v[RegY(instruction')])
     /\ BorrowLaw(7, v[RegY(instruction')], v[RegX(instruction')])
     /\ Ran8XY(7) /\ RegX(instruction') # 15
          /\ IsByte(v[RegX(instruction')]) /\ IsByte(v[RegY(instruction')])
          => v'[RegY(instruction')] = v[RegY(instruction')]]_vars

\* C8 (amended): 8XY5 with X # F leaves V[X] = (a - b) mod 256 and V[F] = 0
\* iff a < b; 8XY7 leaves V[X] = (b - a) mod 256 and V[F] = 0 iff b < a, and
\* leaves V[Y] unchanged when Y is neither X nor F.
C8_BorrowLaw ==
  [][/\ BorrowLaw(5, v[RegX(instruction')], v[RegY(instruction')])
     /\ BorrowLaw(7, v[RegY(instruction')], v[RegX(instruction')])
     /\ Ran8XY(7) /\ RegX(instruction') # 15
          /\ RegY(instruction') \notin {RegX(instruction'), 15}
          /\ IsByte(v[RegX(instruction')]) /\ IsByte(v[RegY(instruction')])
          => v'[RegY(instruction')] = v[RegY(instruction')]]_vars

C8_Witness ==
  /\ instruction = Word(8, 1, 2, 7)
  /\ v[2] = 127
  /\ v[1] = 255
  /\ v[15] = 0

\* C9 as claimed: 7XNN with V[X] = old in 0..255 leaves V[X] = (old + NN) mod
\* 256 and V[F] as it was.
C9_AddValueKeepsVF ==
  [][Ran7XNN /\ IsByte(v[RegX(instruction')])
       => /\ v'[RegX(instruction')] =
               (v[RegX(instruction')] + LowNN(instruction')) % 256
          /\ v'[15] = v[15]]_vars

\* C9 (amended): 7XNN with V[X] = old in 0..255 leaves V[X] = (old + NN) mod 256
\* and every other register as it was: V[F] is modified only when X = F, as the
\* destination of the sum, and no carry is written to it.
C9_AddValueLaw ==
  [][Ran7XNN /\ IsByte(v[RegX(instruction')])
       => v' = [v EXCEPT ![RegX(instruction')] =
                  (v[RegX(instruction')] + LowNN(instruction')) % 256]]_vars

C9_Witness ==
  /\ instruction = 28928 + 255
  /\ v[15] = 200
  /\ v[1] = 0

\* C10: a 00EE that finds a pending 2NNN call (none of whose stack bytes was
\* overwritten since) sets the program counter to the fetch address of the most
\* recent pending call plus 2 and the stack pointer to its value before that
\* call: calls return last in, first out.
C10_StackRoundTrip ==
  [][RunOnceRan /\ instruction' = 238 /\ failure' = NoFailure /\ calls # << >>
       => /\ program_counter' = calls[Len(calls)][1] + 2
          /\ stack_pointer' = calls[Len(calls)][2]
          /\ calls' = SubSeq(calls, 1, Len(calls) - 1)]_vars

C10_Witness ==
  /\ instruction = 238
  /\ calls = << >>
  /\ program_counter = PROGRAM_COUNTER_START + 2
  /\ stack_pointer = STACK_POINTER_START
  /\ FromBytes(MemSlice(memory, STACK_POINTER_START + 2 * (MaxDepth - 1), 2))
       = PROGRAM_COUNTER_START + 4 * (MaxDepth - 1) + 2

\* the call that just ran executed, from the Running state, a word of the
\* family FXNN with the given low byte, and did not fail
RanFX(nn) ==
  /\ RunOnceRan
  /\ ~waiting_for_keypress
  /\ instruction' # None
  /\ MaskF0FF(instruction') = 61440 + nn
  /\ failure' = NoFailure

\* C11: FX33 with V[X] = value in 0..255 writes the hundreds, tens and ones
\* digits of value to memory[I], memory[I+1], memory[I+2]: each is a decimal
\* digit and 100 * memory[I] + 10 * memory[I+1] + memory[I+2] = value; the
\* index register and the registers are unchanged.
C11_BcdLaw ==
  [][RanFX(51) /\ IsByte(v[RegX(instruction')])
       => LET value == v[RegX(instruction')]
              d == MemSlice(memory', index_register, 3)
          IN  /\ d[1] = value \div 100
              /\ d[2] = (value \div 10) % 10
              /\ d[3] = value % 10
              /\ \A i \in 1..3 : d[i] \in 0..9
              /\ 100 * d[1] + 10 * d[2] + d[3] = value
              /\ UNCHANGED << index_register, v >>]_vars

C11_Witness ==
  /\ instruction = Word(15, 1, 3, 3)
  /\ v[1] = 157
  /\ index_register = 768
  /\ MemSlice(memory, 768, 3) = << 1, 5, 7 >>

\* the halt-recommended signal was raised by the call that just ran
PauseRaised ==
  \E i \in DOMAIN events' : events'[i] = "actionPause"

\* the address the call that just ran fetched its word from
FetchAddress == program_counter

\* C12: the halt-recommended signal is raised by 1NNN exactly when NNN is the
\* address the word was fetched from, by BNNN exactly when NNN + V[0] is that
\* address, and by no other instruction; in every case the program counter is
\* set to the jump target.
C12_HaltSignal ==
  [][RunOnceRan /\ instruction' # None
       => LET w == instruction'
              jump == MaskF000(w) = 4096
              offset == MaskF000(w) = 45056
          IN  /\ PauseRaised <=>
                   \/ jump /\ LowNNN(w) = FetchAddress
                   \/ offset /\ LowNNN(w) + v'[0] = FetchAddress
              /\ jump => program_counter' = LowNNN(w)
              /\ offset => program_counter' = LowNNN(w) + v'[0]]_vars

C12_Witness ==
  /\ instruction = 45560
  /\ v[0] = 10
  /\ program_counter = 514
  /\ events = << "actionPause" >>

\* the display-changed event was raised by the call that just ran
DisplayChangedRaised ==
  \E i \in DOMAIN events' : events'[i] = "display_changed"

\* a lit pixel of the framebuffer lies under a set bit of the n-row sprite at
\* memory[I .. I+n) placed at (x, y), coordinates wrapping
Collides(x, y, n) ==
  \E row \in 0..(n - 1), column \in 0..7 :
    /\ (MemGet(memory, index_register + row) \div Pow2(7 - column)) % 2 = 1
    /\ << (x + column) % VIDEO_WIDTH, (y + row) % VIDEO_HEIGHT >>
         \in video_memory

\* C13: every call that executes 00E0 or DXYN raises the display-changed event
\* in that same call; 00E0 leaves no pixel lit, and DXYN sets V[F] to 1 if the
\* draw collided and to 0 otherwise.
C13_DisplayChanged ==
  [][RunOnceRan /\ instruction' # None /\ failure' = NoFailure
       => LET w == instruction'
          IN  /\ w = 224 => DisplayChangedRaised /\ video_memory' = {}
              /\ MaskF000(w) = 53248 => DisplayChangedRaised
              /\ MaskF000(w) = 53248 /\ ~waiting_for_keypress
                   => v'[15] = IF Collides(v[RegX(w)], v[RegY(w)], LowN(w))
                                THEN 1 ELSE 0]_vars

\* the call that just ran executed, from the Running state, a word FXNN with
\* low byte in nns, and failed with OutOfBounds
RanFXOutOfBounds(nns) ==
  /\ RunOnceRan
  /\ ~waiting_for_keypress
  /\ instruction' # None
  /\ MaskF0FF(instruction') \in { 61440 + nn : nn \in nns }
  /\ failure' = OutOfBounds

\* C14: FX55, FX65 or FX33 executed on a span that crosses the end of the
\* memory fails with OutOfBounds and has changed no memory byte (FX55, FX33)
\* and no register (FX65).
C14_NoPartialAccess ==
  [][RanFXOutOfBounds({51, 85, 101}) => memory' = memory /\ v' = v]_vars

\* a timer after one timeout
Ticked(timer) == IF timer > 0 THEN timer - 1 ELSE 0

\* C15: decrement_timers decrements the delay timer and the sound timer by
\* exactly 1 each when the timer is above 0 and leaves a timer that is 0 at 0,
\* each independently of the other; it changes nothing else: registers, program
\* counter, index register, stack pointer, memory, framebuffer and the
\* AwaitingKey latch stay as they were, also while AwaitingKey.
C15_TickLaw ==
  [][ticked'
       => /\ delay_timer' = Ticked(delay_timer)
          /\ sound_timer' = Ticked(sound_timer)
          /\ delay_timer' >= 0 /\ sound_timer' >= 0
          /\ UNCHANGED << v, program_counter, index_register, stack_pointer,
                          memory, video_memory, waiting_for_keypress,
                          keypress_target >>]_vars

\* a timeout while AwaitingKey with the sound timer already at 0
C15_Witness ==
  /\ ticked
  /\ waiting_for_keypress
  /\ keypress_target = 3
  /\ instruction = None
  /\ delay_timer = 1
  /\ sound_timer = 0
  /\ delay_load = << 3, 2 >>

\* C16: in every reachable state each of the 16 registers holds a value in
\* 0..255, and so do the delay timer and the sound timer.
C16_RegisterWidth ==
  /\ \A r \in 0..15 : v[r] \in 0..255
  /\ delay_timer \in 0..255
  /\ sound_timer \in 0..255

\* C17: the stack pointer never goes below STACK_POINTER_START and never
\* passes PROGRAM_COUNTER_START, so that no pop reads below the stack area and
\* no push writes a return address at or beyond the start of the program.
C17_StackWindow ==
  /\ STACK_POINTER_START <= stack_pointer
  /\ stack_pointer <= PROGRAM_COUNTER_START

\* C18: FX1E leaves index_register = (old index_register + V[X]) mod 0x1000
\* and V[F] = 1 if old index_register + V[X] exceeds 0xFFF, else 0; and the
\* index register is within 0..0xFFF in every reachable state.
C18_IndexLaw ==
  /\ [][RanFX(30)
          => LET sum == index_register + v[RegX(instruction')]
             IN  /\ index_register' = sum % 4096
                 /\ v'[15] = IF sum > 4095 THEN 1 ELSE 0]_vars
  /\ [](index_register \in 0..4095)

\* the call that just ran executed the word FXNN with the given low byte
ExecutedFX(nn) ==
  /\ RunOnceRan
  /\ instruction' # None
  /\ failure' = NoFailure
  /\ MaskF0FF(instruction') = 61440 + nn

\* C19: in every interleaving of run_once and decrement_timers calls, an FX07
\* that follows an FX15 loading n and k timeouts since, with any instructions
\* other than FX15 in between, loads max(n - k, 0) into V[X]; a run_once call
\* changes the delay timer only by executing FX15 and the sound timer only by
\* executing FX18, to the value of V[X].
C19_TimerInterleaving ==
  /\ [][ExecutedFX(7)
          => v'[RegX(instruction')] = Max({delay_load[1] - delay_load[2], 0})]_vars
  /\ [][RunOnceRan /\ delay_timer' # delay_timer
          => ExecutedFX(21) /\ delay_timer' = v'[RegX(instruction')]]_vars
  /\ [][RunOnceRan /\ sound_timer' # sound_timer
          => ExecutedFX(24) /\ sound_timer' = v'[RegX(instruction')]]_vars

\* FX07 read 1 after FX15 loaded 3 and two timeouts, with 6XNN, FX18 and a wait
\* for a key in between
C19_Witness ==
  /\ instruction = Word(15, 4, 0, 7)
  /\ v[4] = 1
  /\ v[3] \in 0..15
  /\ delay_load = << 3, 2 >>
  /\ ~ticked

\* C20: if the timeouts keep coming and from some point on the program
\* executes no FX15, the delay timer eventually is 0 and stays 0; likewise the
\* sound timer and FX18; however the run_once calls interleave and whether the
\* emulator is running or waiting for a key.
C20_TimerLiveness ==
  /\ <>[][~ExecutedFX(21)]_vars => <>[](delay_timer = 0)
  /\ <>[][~ExecutedFX(24)]_vars => <>[](sound_timer = 0)

\* the delay timer ran out while the emulator waited for a key
C20_Witness ==
  /\ waiting_for_keypress
  /\ keypress_target = 3
  /\ ticked
  /\ delay_timer = 0
  /\ sound_timer = 0
  /\ delay_load = << 3, 3 >>

\* C21: FX65 with the same X as the last FX55, executed while the index
\* register and memory[I..I+X] are as that FX55 left them, restores V[0..X] to
\* the values they had at the FX55; FX55 changes no register and FX65 leaves
\* V[X+1..F] and the memory unchanged; neither changes the index register.
C21_SaveRestore ==
  /\ [][ExecutedFX(101) /\ saved.valid /\ saved.x = RegX(instruction')
          => \A i \in 0..saved.x : v'[i] = saved.values[i + 1]]_vars
  /\ [][RanFX(85) => UNCHANGED << v, index_register >>]_vars
  /\ [][RanFX(101)
          => /\ UNCHANGED << index_register, memory >>
             /\ \A r \in (RegX(instruction') + 1)..15 : v'[r] = v[r]]_vars

\* V[0..F] restored from the last 16 bytes of the memory after V[0] and V[F]
\* were overwritten
C21_Witness ==
  /\ instruction = Word(15, 15, 6, 5)
  /\ index_register = MEMORY_SIZE - 16
  /\ saved.valid /\ saved.x = 15 /\ saved.index = index_register
  /\ v[0] = 129 /\ v[15] = 175
  /\ \A i \in 0..15 : v[i] = saved.values[i + 1]
  /\ failure = NoFailure

====
